---- MODULE Spec2Model ----
(***************************************************************************)
(* OPL3box UI.h: the OperatorValue parameter descriptors.  Ten variants    *)
(* bind one field of an OPL3::OperatorSetup record each; the base class    *)
(* supplies the clamped encoder increment and the two text renderings.     *)
(* Strings are sequences of one-character strings, buffers are arrays of   *)
(* bytes, ints are two's-complement numbers of IntBits bits.               *)
(***************************************************************************)
EXTENDS Integers, Sequences, FiniteSets, TLC

\* ------------------------------------------------------------------ bounds
IntBits == 16      \* width of the machine int
BufCap == 16       \* capacity of the buffer the display collaborator passes
MaxEdits == 1      \* writes to the operator records in one run

\* operator numbers the UI is assembled with (constructor argument nr)
OperatorNrs == {1, 2}

IntModulus == 2 ^ IntBits
INT_MAX == (IntModulus \div 2) - 1
INT_MIN == -(IntModulus \div 2)

\* deltas the encoder driver delivers, the extreme ints included
Deltas == {INT_MIN, -5, 1, 20, INT_MAX}

\* len arguments the display collaborator passes
Lens == {0, 5, BufCap}

\* ------------------------------------------------------------ static data
NULLPTR == <<"nullptr">>
NUL == "NUL"
FILL == "??"       \* a byte of the caller's buffer the call has not written

WaveformChoices ==
  << <<"S", "i", "n", "e">>,
     <<"H", "a", "l", "f", "S", "i", "n", "e">>,
     <<"A", "b", "s", "S", "i", "n", "e">>,
     <<"P", "u", "l", "s", "e", "S", "i", "n", "e">> >>

FrequencyMultiplierChoices ==
  << <<"0", ".", "5">>, <<"1">>, <<"2">>, <<"3">>, <<"4">>, <<"5">>, <<"6">>,
     <<"7">>, <<"8">>, <<"9">>, <<"1", "0">>, <<"1", "0">>, <<"1", "2">>,
     <<"1", "2">>, <<"1", "5">>, <<"1", "5">> >>

BoolChoices ==
  << <<"O", "F", "F">>, <<"O", "N">> >>

Kinds ==
  {"Waveform", "FrequencyMutliplier", "EnvScaling", "SustainHold", "Vibrato",
   "Tremolo", "Attack", "Decay", "Sustain", "Release"}

\* maxValue with the vibrato variant given the envelope bound
maxValueCopyPaste(k) ==
  CASE k = "Waveform" -> Len(WaveformChoices)
    [] k = "FrequencyMutliplier" -> Len(FrequencyMultiplierChoices)
    [] k \in {"EnvScaling", "SustainHold", "Tremolo"} -> Len(BoolChoices)
    [] k \in {"Vibrato", "Attack", "Decay", "Sustain", "Release"} -> 16

\* third constructor argument of each variant
maxValue(k) ==
  CASE k = "Waveform" -> Len(WaveformChoices)
    [] k = "FrequencyMutliplier" -> Len(FrequencyMultiplierChoices)
    [] k \in {"EnvScaling", "SustainHold", "Vibrato", "Tremolo"} -> Len(BoolChoices)
    [] k \in {"Attack", "Decay", "Sustain", "Release"} -> 16

\* fourth constructor argument of each variant
displayNameFormat(k) ==
  CASE k = "Waveform" -> <<"O", "P", "%", "d", " ", "W", "a", "v", "e", "f", "o", "r", "m">>
    [] k = "FrequencyMutliplier" -> <<"O", "P", "%", "d", " ", "F", "r", "e", "q", " ", "M", "u", "l", "t">>
    [] k = "EnvScaling" -> <<"O", "P", "%", "d", " ", "E", "n", "v", " ", "S", "c", "a", "l", "e">>
    [] k = "SustainHold" -> <<"O", "P", "%", "d", " ", "S", "u", "s", " ", "H", "o", "l", "d">>
    [] k = "Vibrato" -> <<"O", "P", "%", "d", " ", "V", "i", "b", "r", "a", "t", "o">>
    [] k = "Tremolo" -> <<"O", "P", "%", "d", " ", "T", "r", "e", "m", "o", "l", "o">>
    [] k = "Attack" -> <<"O", "P", "%", "d", " ", "A", "t", "t", "a", "c", "k">>
    [] k = "Decay" -> <<"O", "P", "%", "d", " ", "D", "e", "c", "a", "y">>
    [] k = "Sustain" -> <<"O", "P", "%", "d", " ", "S", "u", "s", "t", "a", "i", "n">>
    [] k = "Release" -> <<"O", "P", "%", "d", " ", "R", "e", "l", "e", "a", "s", "e">>

\* fifth constructor argument of each variant (nullptr when omitted or NULL)
valueNames(k) ==
  CASE k = "Waveform" -> WaveformChoices
    [] k = "FrequencyMutliplier" -> FrequencyMultiplierChoices
    [] k \in {"EnvScaling", "SustainHold", "Vibrato", "Tremolo"} -> BoolChoices
    [] k \in {"Attack", "Decay", "Sustain", "Release"} -> NULLPTR

\* ------------------------------------------------- the operator-state record
Fields == {"waveform", "mult", "ksr", "egt", "vib", "am", "ar", "dr", "sl", "rr"}

\* native width of each bound field of OPL3::OperatorSetup
FieldBits(f) ==
  CASE f = "waveform" -> 3
    [] f \in {"mult", "ar", "dr", "sl", "rr"} -> 4
    [] f \in {"ksr", "egt", "vib", "am"} -> 1

\* what a field holds after an int is assigned to it
Narrow(f, v) == v % (2 ^ FieldBits(f))

\* ------------------------------------------------------------ int arithmetic
Wrap(n) == ((n - INT_MIN) % IntModulus) + INT_MIN

\* int + int; signed overflow is undefined: the build either wraps or goes on
\* as if the sum had not overflowed
IntAdd(a, b) ==
  IF a + b \in INT_MIN..INT_MAX THEN {a + b} ELSE {Wrap(a + b), a + b}

max(a, b) == IF a > b THEN a ELSE b

min(a, b) == IF a < b THEN a ELSE b

\* ------------------------------------------------------------- get / set
\* a variant's getValue with the decay variant reading the attack field
getValueCopyPaste(k, rec) ==
  CASE k = "Waveform" -> rec.waveform
    [] k = "FrequencyMutliplier" -> rec.mult
    [] k = "EnvScaling" -> rec.ksr
    [] k = "SustainHold" -> rec.egt
    [] k = "Vibrato" -> rec.vib
    [] k = "Tremolo" -> rec.am
    [] k = "Attack" -> rec.ar
    [] k = "Decay" -> rec.ar
    [] k = "Sustain" -> rec.sl
    [] k = "Release" -> rec.rr

getValue(k, rec) ==
  CASE k = "Waveform" -> rec.waveform
    [] k = "FrequencyMutliplier" -> rec.mult
    [] k = "EnvScaling" -> rec.ksr
    [] k = "SustainHold" -> rec.egt
    [] k = "Vibrato" -> rec.vib
    [] k = "Tremolo" -> rec.am
    [] k = "Attack" -> rec.ar
    [] k = "Decay" -> rec.dr
    [] k = "Sustain" -> rec.sl
    [] k = "Release" -> rec.rr

\* rec.f = v
assign(rec, f, v) == [rec EXCEPT ![f] = Narrow(f, v)]

\* a variant's setValue with the vibrato variant writing the tremolo field
setValueCopyPaste(k, rec, v) ==
  CASE k = "Waveform" -> assign(rec, "waveform", v)
    [] k = "FrequencyMutliplier" -> assign(rec, "mult", v)
    [] k = "EnvScaling" -> assign(rec, "ksr", v)
    [] k = "SustainHold" -> assign(rec, "egt", v)
    [] k = "Vibrato" -> assign(rec, "am", v)
    [] k = "Tremolo" -> assign(rec, "am", v)
    [] k = "Attack" -> assign(rec, "ar", v)
    [] k = "Decay" -> assign(rec, "dr", v)
    [] k = "Sustain" -> assign(rec, "sl", v)
    [] k = "Release" -> assign(rec, "rr", v)

setValue(k, rec, v) ==
  CASE k = "Waveform" -> assign(rec, "waveform", v)
    [] k = "FrequencyMutliplier" -> assign(rec, "mult", v)
    [] k = "EnvScaling" -> assign(rec, "ksr", v)
    [] k = "SustainHold" -> assign(rec, "egt", v)
    [] k = "Vibrato" -> assign(rec, "vib", v)
    [] k = "Tremolo" -> assign(rec, "am", v)
    [] k = "Attack" -> assign(rec, "ar", v)
    [] k = "Decay" -> assign(rec, "dr", v)
    [] k = "Sustain" -> assign(rec, "sl", v)
    [] k = "Release" -> assign(rec, "rr", v)

\* ---------------------------------------------------------------- printf
Digits == <<"0", "1", "2", "3", "4", "5", "6", "7", "8", "9",
            "a", "b", "c", "d", "e", "f">>

RECURSIVE Numeral(_, _)
\* the digits of n >= 0 in the given base, no padding
Numeral(n, base) ==
  IF n < base THEN <<Digits[n + 1]>>
  ELSE Numeral(n \div base, base) \o <<Digits[(n % base) + 1]>>

\* %d of an int
FormatD(n) == IF n < 0 THEN <<"-">> \o Numeral(-n, 10) ELSE Numeral(n, 10)

\* %x taken for %d
FormatXAsDecimal(n) == FormatD(n)

\* %x of an int: the int is read as unsigned
FormatX(n) == Numeral(n % IntModulus, 16)

\* the format copied out without its conversion being performed
FormatVerbatim(fmt, arg, str) == fmt

RECURSIVE Format(_, _, _)
\* the text printf produces for a format with one conversion and its argument
Format(fmt, arg, str) ==
  IF fmt = <<>> THEN <<>>
  ELSE IF Len(fmt) >= 2 /\ fmt[1] = "%" /\ fmt[2] = "d"
    THEN FormatD(arg) \o Format(Tail(Tail(fmt)), arg, str)
  ELSE IF Len(fmt) >= 2 /\ fmt[1] = "%" /\ fmt[2] = "x"
    THEN FormatX(arg) \o Format(Tail(Tail(fmt)), arg, str)
  ELSE IF Len(fmt) >= 2 /\ fmt[1] = "%" /\ fmt[2] = "s"
    THEN str \o Format(Tail(Tail(fmt)), arg, str)
  ELSE <<fmt[1]>> \o Format(Tail(fmt), arg, str)

\* a copy of up to len characters with the terminator after them
snprintfNoRoom(buf, len, text) ==
  LET n == min(Len(text), len)
  IN [i \in 1..Len(buf) |->
        IF i <= n THEN text[i] ELSE IF i = n + 1 THEN NUL ELSE buf[i]]

\* snprintf(buf, len, ...): at most len - 1 characters of the text and a
\* terminator; nothing at all when len is 0
snprintf(buf, len, text) ==
  IF len = 0 THEN buf
  ELSE LET n == min(Len(text), len - 1)
       IN [i \in 1..Len(buf) |->
             IF i <= n THEN text[i] ELSE IF i = n + 1 THEN NUL ELSE buf[i]]

\* ------------------------------------------------------------------ state
VARIABLES
  ops,     \* the OperatorSetup record of each operator
  call,    \* the most recent call, its arguments and what it produced
  edits    \* writes to the operator records so far

vars == <<ops, call, edits>>

\* the caller's buffer before the call
FreshBuf == [i \in 1..BufCap |-> FILL]

NoCall ==
  [op |-> "none", kind |-> "Waveform", nr |-> 0, delta |-> 0, old |-> 0,
   written |-> 0, len |-> 0, buf |-> FreshBuf, oob |-> FALSE]

ZeroSetup == [f \in Fields |-> 0]

TopSetup ==
  [f \in Fields |-> IF f = "waveform" THEN 3 ELSE (2 ^ FieldBits(f)) - 1]

\* records the owner hands over when the descriptors are constructed
InitSetups == {ZeroSetup, TopSetup}

Init ==
  /\ ops \in [OperatorNrs -> InitSetups]
  /\ call = NoCall
  /\ edits = 0

\* the increment's clamp with the upper bound one too high
clampedOffByOne(k, sum) == max(0, min(maxValue(k), sum))

\* value the increment hands to setValue, given the sum it computed
clamped(k, sum) == max(0, min(maxValue(k) - 1, sum))

onEncoderDelta(k, nr, delta) ==
  /\ edits < MaxEdits
  /\ \E sum \in IntAdd(getValue(k, ops[nr]), delta) :
       /\ ops' = [ops EXCEPT ![nr] = setValue(k, ops[nr], clamped(k, sum))]
       /\ call' = [NoCall EXCEPT !.op = "onEncoderDelta", !.kind = k, !.nr = nr,
                                 !.delta = delta,
                                 !.old = getValue(k, ops[nr]),
                                 !.written = clamped(k, sum)]
  /\ edits' = edits + 1

\* the last call was a rendering: the redraw path renders after a change and
\* does not render an unchanged record again
Rendered == call.op \in {"getParamString", "getValueString"}

getParamString(k, nr, len) ==
  /\ ~Rendered
  /\ call' = [NoCall EXCEPT !.op = "getParamString", !.kind = k, !.nr = nr,
                            !.len = len,
                            !.old = getValue(k, ops[nr]),
                            !.buf = snprintf(FreshBuf, len,
                                       Format(displayNameFormat(k), nr, <<>>))]
  /\ UNCHANGED <<ops, edits>>

\* what a read past the end of a label table can yield: a null pointer or a
\* pointer to other data, here the first entry of the table defined next
StrayPointers == {NULLPTR, FrequencyMultiplierChoices[1]}

getValueString(k, nr, len) ==
  LET value == getValue(k, ops[nr])
      inTable == valueNames(k) # NULLPTR /\ value < Len(valueNames(k))
      reads == IF valueNames(k) = NULLPTR THEN {NULLPTR}
               ELSE IF inTable THEN {valueNames(k)[value + 1]}
               ELSE StrayPointers
  IN /\ ~Rendered
     /\ \E valueString \in reads :
          call' = [NoCall EXCEPT !.op = "getValueString", !.kind = k, !.nr = nr,
                     !.len = len,
                     !.old = value,
                     !.oob = (valueNames(k) # NULLPTR /\ ~inTable),
                     !.buf = IF valueString # NULLPTR
                             THEN snprintf(FreshBuf, len,
                                    Format(<<"%", "s">>, 0, valueString))
                             ELSE snprintf(FreshBuf, len,
                                    Format(<<"%", "x">>, value, <<>>))]
     /\ UNCHANGED <<ops, edits>>

\* the owner of the records stores a value the field can hold
ownerWrite(nr, f, v) ==
  /\ edits < MaxEdits
  /\ ops' = [ops EXCEPT ![nr] = assign(ops[nr], f, v)]
  /\ call' = [NoCall EXCEPT !.op = "ownerWrite", !.nr = nr, !.written = v]
  /\ edits' = edits + 1

EncoderEvent == \E k \in Kinds, nr \in OperatorNrs, delta \in Deltas :
                  onEncoderDelta(k, nr, delta)

RedrawName == \E k \in Kinds, nr \in OperatorNrs, len \in Lens :
                getParamString(k, nr, len)

RedrawValue == \E k \in Kinds, nr \in OperatorNrs, len \in Lens :
                 getValueString(k, nr, len)

OwnerEvent == \E nr \in OperatorNrs, f \in Fields :
                \E v \in 0..((2 ^ FieldBits(f)) - 1) : ownerWrite(nr, f, v)

Next == EncoderEvent \/ RedrawName \/ RedrawValue

Spec == Init /\ [][Next]_vars

\* the descriptors together with the owner of the records
NextExt == EncoderEvent \/ RedrawName \/ RedrawValue \/ OwnerEvent

SpecExt == Init /\ [][NextExt]_vars

\* ----------------------------------------------------------------- claims
Renderings == {"getParamString", "getValueString"}

Enumerated == {"Waveform", "FrequencyMutliplier", "EnvScaling", "SustainHold",
               "Vibrato", "Tremolo"}

Envelope == {"Attack", "Decay", "Sustain", "Release"}

\* the field each variant is documented to bind
BoundField(k) ==
  CASE k = "Waveform" -> "waveform"
    [] k = "FrequencyMutliplier" -> "mult"
    [] k = "EnvScaling" -> "ksr"
    [] k = "SustainHold" -> "egt"
    [] k = "Vibrato" -> "vib"
    [] k = "Tremolo" -> "am"
    [] k = "Attack" -> "ar"
    [] k = "Decay" -> "dr"
    [] k = "Sustain" -> "sl"
    [] k = "Release" -> "rr"

\* the name each variant shows after "OP<n>"
NameSuffix(k) ==
  CASE k = "Waveform" -> <<" ", "W", "a", "v", "e", "f", "o", "r", "m">>
    [] k = "FrequencyMutliplier" -> <<" ", "F", "r", "e", "q", " ", "M", "u", "l", "t">>
    [] k = "EnvScaling" -> <<" ", "E", "n", "v", " ", "S", "c", "a", "l", "e">>
    [] k = "SustainHold" -> <<" ", "S", "u", "s", " ", "H", "o", "l", "d">>
    [] k = "Vibrato" -> <<" ", "V", "i", "b", "r", "a", "t", "o">>
    [] k = "Tremolo" -> <<" ", "T", "r", "e", "m", "o", "l", "o">>
    [] k = "Attack" -> <<" ", "A", "t", "t", "a", "c", "k">>
    [] k = "Decay" -> <<" ", "D", "e", "c", "a", "y">>
    [] k = "Sustain" -> <<" ", "S", "u", "s", "t", "a", "i", "n">>
    [] k = "Release" -> <<" ", "R", "e", "l", "e", "a", "s", "e">>

\* positions of the buffer that hold a terminator
Terminators(buf) == {i \in 1..Len(buf) : buf[i] = NUL}

\* the C string in the buffer: the bytes before the first terminator
TextOf(buf) ==
  IF Terminators(buf) = {} THEN buf
  ELSE SubSeq(buf, 1, (CHOOSE i \in Terminators(buf) :
                          \A j \in Terminators(buf) : i <= j) - 1)

IsPrefix(s, t) == Len(s) <= Len(t) /\ s = SubSeq(t, 1, Len(s))

\* the value of the field the last call's descriptor is bound to
Current == getValue(call.kind, ops[call.nr])

\* clamp(n, lo, hi) over the integers
Clamp(n, lo, hi) == IF n < lo THEN lo ELSE IF n > hi THEN hi ELSE n

\* the rendering of the last call had the buffer been long enough
Untruncated ==
  IF call.op = "getParamString"
  THEN Format(displayNameFormat(call.kind), call.nr, <<>>)
  ELSE IF valueNames(call.kind) = NULLPTR THEN FormatX(Current)
  ELSE valueNames(call.kind)[Current + 1]

\* C1: every bound field of every operator record holds a value in
\* [0, maxValue) of its descriptor, in the state after any onEncoderDelta call
\* and in every other reachable state.
C1_ValueInRange ==
  \A nr \in OperatorNrs, k \in Kinds :
    /\ getValue(k, ops[nr]) >= 0
    /\ getValue(k, ops[nr]) < maxValue(k)

\* C1 witness: an increment that overshot the upper bound has been clamped.
C1_Witness ==
  /\ call.op = "onEncoderDelta"
  /\ call.kind = "Waveform"
  /\ call.old + call.delta > maxValue(call.kind) - 1
  /\ Current = maxValue(call.kind) - 1

\* C2: after onEncoderDelta(delta) the bound field equals
\* clamp(old + delta, 0, maxValue - 1) with old + delta the integer sum.
C2_ExactClamp ==
  call.op = "onEncoderDelta" =>
    Current = Clamp(call.old + call.delta, 0, maxValue(call.kind) - 1)

\* C3: at value 0 a negative delta leaves 0, and at value maxValue - 1 a
\* positive delta leaves maxValue - 1, for every delta an int can hold.
C3_SaturatesAtBothEnds ==
  call.op = "onEncoderDelta" =>
    /\ (call.old = 0 /\ call.delta < 0) => Current = 0
    /\ (call.old = maxValue(call.kind) - 1 /\ call.delta > 0)
         => Current = maxValue(call.kind) - 1

C5_ValueStringOfValue ==
  (call.op = "getValueString" /\ call.len = BufCap) =>
    /\ call.kind \in Enumerated
         => TextOf(call.buf) = valueNames(call.kind)[Current + 1]
    /\ call.kind \in Envelope => TextOf(call.buf) = <<Digits[Current + 1]>>
    /\ (call.kind = "Waveform" /\ Current = 1)
         => TextOf(call.buf) = <<"H", "a", "l", "f", "S", "i", "n", "e">>
    /\ (call.kind = "Vibrato" /\ Current = 0)
         => TextOf(call.buf) = <<"O", "F", "F">>
    /\ (call.kind = "Attack" /\ Current = 15) => TextOf(call.buf) = <<"f">>

\* C5 witness: an attack value of 15 has been rendered as "f".
C5_Witness ==
  /\ call.op = "getValueString"
  /\ call.kind = "Attack"
  /\ call.len = BufCap
  /\ Current = 15
  /\ TextOf(call.buf) = <<"f">>

\* C6: when the descriptor has a label table and the value is at or beyond
\* the table's length, getValueString reads nothing outside the table and
\* renders the value as a hexadecimal numeral.
C6_LookupMissFallsBack ==
  (/\ call.op = "getValueString"
   /\ valueNames(call.kind) # NULLPTR
   /\ Current >= Len(valueNames(call.kind)))
    => /\ ~call.oob
       /\ call.len = BufCap => TextOf(call.buf) = FormatX(Current)

\* C7 as stated: a rendering call writes only the first len bytes of the
\* buffer, leaves a terminator among them, and the text before it is a prefix
\* of the untruncated rendering, for every len, 0 included.
C7_TerminatedWithinLen ==
  call.op \in Renderings =>
    /\ \A i \in 1..BufCap : i > call.len => call.buf[i] = FILL
    /\ \E i \in 1..call.len : call.buf[i] = NUL
    /\ IsPrefix(TextOf(call.buf), Untruncated)

\* C7 as amended: a rendering call writes only the first len bytes of the
\* buffer; when len >= 1 it leaves a terminator among them after the first
\* min(len - 1, length) characters of the untruncated rendering; when len is 0
\* it writes nothing.
C7_TerminatedWhenRoom ==
  call.op \in Renderings =>
    /\ \A i \in 1..BufCap : i > call.len => call.buf[i] = FILL
    /\ call.len >= 1 =>
         /\ \E i \in 1..call.len : call.buf[i] = NUL
         /\ IsPrefix(TextOf(call.buf), Untruncated)
         /\ Len(TextOf(call.buf)) = min(call.len - 1, Len(Untruncated))
    /\ call.len = 0 => call.buf = FreshBuf

\* C7 witness: a name longer than the buffer has been cut to len - 1
\* characters and a terminator.
C7_Witness ==
  /\ call.op = "getParamString"
  /\ call.len = 5
  /\ Len(Untruncated) > 5
  /\ TextOf(call.buf) = SubSeq(Untruncated, 1, 4)
  /\ call.buf[5] = NUL

\* C8: the name getParamString renders into a buffer that is long enough is
\* "OP", the decimal operator number given at construction, and the variant's
\* name, whatever the field values are and whatever calls came before.
C8_ParamStringOfIndex ==
  (call.op = "getParamString" /\ call.len = BufCap) =>
    /\ TextOf(call.buf) =
         <<"O", "P">> \o <<Digits[call.nr + 1]>> \o NameSuffix(call.kind)
    /\ (call.kind = "Attack" /\ call.nr = 2) =>
         TextOf(call.buf) =
           <<"O", "P", "2", " ", "A", "t", "t", "a", "c", "k">>

\* C8 witness: operator 2's attack descriptor has rendered "OP2 Attack" over a
\* record whose attack value is not the initial one of its operator.
C8_Witness ==
  /\ call.op = "getParamString"
  /\ call.kind = "Attack"
  /\ call.nr = 2
  /\ call.len = BufCap
  /\ edits > 0
  /\ TextOf(call.buf) = <<"O", "P", "2", " ", "A", "t", "t", "a", "c", "k">>

\* C9: an onEncoderDelta step reads and writes the one field its variant is
\* bound to and leaves every other field of every operator record as it was;
\* a rendering step leaves every field as it was.
C9_Frame ==
  [][/\ call'.op = "onEncoderDelta" =>
          /\ call'.old = ops[call'.nr][BoundField(call'.kind)]
          /\ ops'[call'.nr][BoundField(call'.kind)] = call'.written
          /\ \A nr \in OperatorNrs, f \in Fields :
               (nr # call'.nr \/ f # BoundField(call'.kind))
                 => ops'[nr][f] = ops[nr][f]
     /\ call'.op \in Renderings => ops' = ops]_vars

\* C9 witness: an increment has changed its field while the other fields of
\* its record and the other operator's record hold non-zero values.
C9_Witness ==
  /\ call.op = "onEncoderDelta"
  /\ call.kind = "Vibrato"
  /\ call.old = 1
  /\ Current = 0
  /\ ops[call.nr].am = 1
  /\ \E nr \in OperatorNrs : nr # call.nr /\ ops[nr] = TopSetup

\* C10: maxValue is the length of the label table for the six enumerated
\* variants (4, 16, 2, 2, 2, 2) and 16 with no table for the four envelope
\* variants; getValueString on an enumerated descriptor reads inside its table
\* and renders one of its labels.
C10_LabelCoverage ==
  /\ maxValue("Waveform") = 4 /\ Len(valueNames("Waveform")) = 4
  /\ maxValue("FrequencyMutliplier") = 16
  /\ Len(valueNames("FrequencyMutliplier")) = 16
  /\ \A k \in {"EnvScaling", "SustainHold", "Vibrato", "Tremolo"} :
       maxValue(k) = 2 /\ Len(valueNames(k)) = 2
  /\ \A k \in Envelope : maxValue(k) = 16 /\ valueNames(k) = NULLPTR
  /\ (call.op = "getValueString" /\ call.kind \in Enumerated) =>
       /\ ~call.oob
       /\ call.len = BufCap =>
            \E i \in 1..Len(valueNames(call.kind)) :
              TextOf(call.buf) = valueNames(call.kind)[i]

\* C10 witness: after an increment to the top of its range the frequency
\* multiplier has rendered the last label of its table.
C10_Witness ==
  /\ call.op = "getValueString"
  /\ call.kind = "FrequencyMutliplier"
  /\ call.len = BufCap
  /\ edits > 0
  /\ Current = 15
  /\ TextOf(call.buf) = <<"1", "5">>

====
